---- MODULE Spec2Model ----
(***************************************************************************)
(* HTTP error classification and propagation pipeline of soluce-front:     *)
(* ErrorService (classification of a raw failure into an AppError), the    *)
(* error classes, NotificationService (toast queue), the part of           *)
(* LocaleService the pipeline calls, and httpErrorInterceptor.             *)
(*                                                                         *)
(* JavaScript values are tagged records: t is the run-time type tag.       *)
(* AppError.timestamp (new Date()) is read by no operation and is left out.*)
(***************************************************************************)
EXTENDS Integers, Sequences, FiniteSets, TLC

\* ------------------------------------------------------------------------
\* Bounds of the model
\* ------------------------------------------------------------------------
\* number of request slots that go through the interceptor in one behaviour
MaxReq == 2

\* toasts created in the notification specification
MaxToasts == 4

\* router.navigate calls made in the locale specification
MaxNav == 2

\* ------------------------------------------------------------------------
\* JavaScript values
\* ------------------------------------------------------------------------
Undefined == [t |-> "undefined"]

Null == [t |-> "null"]

\* a property an object literal does not have
Absent == [t |-> "absent"]

Str(s) == [t |-> "string", s |-> s]

Num(n) == [t |-> "number", n |-> n]

Arr(elems) == [t |-> "array", e |-> elems]

\* the property names the pipeline ever reads
PropNames == {"statusCode", "message", "error", "errors", "field"}

NoProps == [k \in PropNames |-> Absent]

Obj(props) == [t |-> "object", f |-> props]

\* what a property read or a call on null/undefined produces
Thrown == [cls |-> "thrown", name |-> "TypeError"]

\* JavaScript typeof
typeof(v) ==
  IF v.t \in {"null", "array", "object"} THEN "object" ELSE v.t

\* Array.isArray
isArray(v) == v.t = "array"

\* v[key]: throws on null/undefined, undefined when the property is missing
GetProp(v, key) ==
  IF v.t \in {"null", "undefined"} THEN Thrown
  ELSE IF v.t = "object" /\ v.f[key] # Absent THEN v.f[key]
  ELSE Undefined

\* a ?? b
Coalesce(a, b) == IF a = Null \/ a = Undefined THEN b ELSE a

\* String(v) as Array.prototype.join applies it to one element
ElemToString(v) ==
  CASE v.t = "string" -> v.s
    [] v.t = "number" -> ToString(v.n)
    [] v.t \in {"null", "undefined"} -> ""
    [] v.t = "object" -> "[object Object]"
    [] OTHER -> ""

RECURSIVE join(_, _)
\* Array.prototype.join(sep) on the elements elems
join(elems, sep) ==
  IF Len(elems) = 0 THEN ""
  ELSE IF Len(elems) = 1 THEN ElemToString(elems[1])
  ELSE ElemToString(elems[1]) \o sep \o join(Tail(elems), sep)

\* ------------------------------------------------------------------------
\* Enumerations
\* ------------------------------------------------------------------------
ErrorCategory ==
  {"validation", "authentication", "authorization", "not_found", "network",
   "server", "unknown"}

ErrorSeverity == {"info", "warning", "error", "critical"}

ToastType == {"success", "info", "warning", "error"}

\* ------------------------------------------------------------------------
\* Error classes (constructors)
\* ------------------------------------------------------------------------
\* AppError constructor: the common envelope
AppError(params) ==
  [cls |-> "AppError",
   name |-> params.name,
   message |-> params.userMessage,
   userMessage |-> params.userMessage,
   category |-> params.category,
   severity |-> params.severity,
   isRetryable |-> params.isRetryable,
   correlationId |-> params.correlationId,
   cause |-> params.cause]

\* ApiHttpError constructor: envelope plus the HTTP fields
ApiHttpError(params) ==
  [cls |-> "AppError",
   name |-> params.name,
   message |-> params.userMessage,
   userMessage |-> params.userMessage,
   category |-> params.category,
   severity |-> params.severity,
   isRetryable |-> params.isRetryable,
   correlationId |-> params.correlationId,
   cause |-> params.cause,
   status |-> params.status,
   statusText |-> params.statusText,
   url |-> params.url,
   method |-> params.method,
   backendBody |-> params.backendBody]

\* the object an ApiHttpError subclass passes to super(...)
HttpParams(name, category, severity, isRetryable, status, params) ==
  [name |-> name, userMessage |-> params.userMessage, category |-> category,
   severity |-> severity, isRetryable |-> isRetryable, status |-> status,
   statusText |-> params.statusText, url |-> params.url,
   method |-> params.method, backendBody |-> params.backendBody,
   correlationId |-> params.correlationId, cause |-> params.cause]

\* the object a direct AppError subclass passes to super(...)
PlainParams(name, category, severity, isRetryable, params) ==
  [name |-> name, userMessage |-> params.userMessage, category |-> category,
   severity |-> severity, isRetryable |-> isRetryable,
   correlationId |-> params.correlationId, cause |-> params.cause]

BadRequestError(params) ==
  ApiHttpError(HttpParams("BadRequestError", "validation", "warning", FALSE,
                          400, params))

ValidationError(params) ==
  ApiHttpError(HttpParams("ValidationError", "validation", "warning", FALSE,
                          params.status, params))
    @@ [fieldErrors |-> params.fieldErrors]

UnauthorizedError(params) ==
  ApiHttpError(HttpParams("UnauthorizedError", "authentication", "error",
                          FALSE, 401, params))

ForbiddenError(params) ==
  ApiHttpError(HttpParams("ForbiddenError", "authorization", "error", FALSE,
                          403, params))

NotFoundError(params) ==
  ApiHttpError(HttpParams("NotFoundError", "not_found", "warning", FALSE,
                          404, params))

ConflictError(params) ==
  ApiHttpError(HttpParams("ConflictError", "validation", "warning", FALSE,
                          409, params))

ServerErrorFixedStatus(params) ==
  ApiHttpError(HttpParams("ServerError", "server", "critical", TRUE,
                          500, params))

ServerError(params) ==
  ApiHttpError(HttpParams("ServerError", "server", "critical", TRUE,
                          params.status, params))

\* NetworkError dropping the cause
NetworkErrorWithoutCause(params) ==
  AppError(PlainParams("NetworkError", "network", "error", TRUE,
                       [params EXCEPT !.cause = Undefined]))

NetworkError(params) ==
  AppError(PlainParams("NetworkError", "network", "error", TRUE, params))

\* UnexpectedError dropping the cause
UnexpectedErrorWithoutCause(params) ==
  AppError(PlainParams("UnexpectedError", "unknown", "error", FALSE,
                       [params EXCEPT !.cause = Undefined]))

UnexpectedError(params) ==
  AppError(PlainParams("UnexpectedError", "unknown", "error", FALSE, params))

ClientError(params) ==
  AppError(PlainParams("ClientError", params.category, params.severity,
                       params.isRetryable, params))

TimeoutError(params) ==
  AppError(PlainParams("TimeoutError", "network", "error", TRUE, params))

\* ------------------------------------------------------------------------
\* ErrorService
\* ------------------------------------------------------------------------
\* error instanceof HttpErrorResponse
IsHttpErrorResponse(error) == error.cls = "HttpErrorResponse"

\* error instanceof AppError
IsAppError(error) == error.cls = "AppError"

\* BackendErrorBody with every field undefined
EmptyBackendErrorBody ==
  [statusCode |-> Undefined, message |-> Undefined,
   errorSummary |-> Undefined, details |-> Undefined]

\* ErrorService.parseBackendErrorBody
parseBackendErrorBody(backendBody) ==
  IF backendBody = Null \/ backendBody = Undefined THEN EmptyBackendErrorBody
  ELSE IF typeof(backendBody) # "object" THEN EmptyBackendErrorBody
  ELSE LET raw == backendBody
       IN [statusCode |->
             IF typeof(GetProp(raw, "statusCode")) = "number"
             THEN GetProp(raw, "statusCode") ELSE Undefined,
           message |->
             IF typeof(GetProp(raw, "message")) = "string"
                \/ isArray(GetProp(raw, "message"))
             THEN GetProp(raw, "message") ELSE Undefined,
           errorSummary |->
             IF typeof(GetProp(raw, "error")) = "string"
             THEN GetProp(raw, "error") ELSE Undefined,
           details |-> GetProp(raw, "errors")]

\* ErrorService.extractPrimaryMessage: a Str value or Undefined
extractPrimaryMessage(backendBody) ==
  IF backendBody = Null \/ backendBody = Undefined THEN Undefined
  ELSE IF typeof(backendBody) = "string" THEN backendBody
  ELSE IF typeof(backendBody) # "object" THEN Undefined
  ELSE LET body == parseBackendErrorBody(backendBody)
           message == body.message
       IN IF typeof(message) = "string" THEN message
          ELSE IF isArray(message) /\ Len(message.e) > 0
               THEN Str(join(message.e, " "))
          ELSE IF typeof(body.errorSummary) = "string"
                  /\ body.errorSummary # Str("")
               THEN body.errorSummary
          ELSE Undefined

RECURSIVE CollectFieldErrorsNoNullGuard(_, _)
\* the loop of extractFieldErrors without its null/undefined guard
CollectFieldErrorsNoNullGuard(details, fieldErrors) ==
  IF Len(details) = 0 THEN Arr(fieldErrors)
  ELSE LET err == details[1]
           field == GetProp(err, "field")
           message == GetProp(err, "message")
       IN IF typeof(err) # "object"
          THEN CollectFieldErrorsNoNullGuard(Tail(details), fieldErrors)
          ELSE IF field = Thrown \/ message = Thrown THEN Thrown
          ELSE IF typeof(field) # "string" \/ typeof(message) # "string"
          THEN CollectFieldErrorsNoNullGuard(Tail(details), fieldErrors)
          ELSE CollectFieldErrorsNoNullGuard(Tail(details),
                 Append(fieldErrors, [field |-> field.s, message |-> message.s]))

RECURSIVE CollectFieldErrorsStopAtMalformed(_, _)
\* the loop of extractFieldErrors leaving at the first malformed entry
CollectFieldErrorsStopAtMalformed(details, fieldErrors) ==
  IF Len(details) = 0 THEN Arr(fieldErrors)
  ELSE LET err == details[1]
           field == GetProp(err, "field")
           message == GetProp(err, "message")
       IN IF err = Null \/ err = Undefined THEN Arr(fieldErrors)
          ELSE IF typeof(err) # "object" THEN Arr(fieldErrors)
          ELSE IF typeof(field) # "string" \/ typeof(message) # "string"
          THEN Arr(fieldErrors)
          ELSE CollectFieldErrorsStopAtMalformed(Tail(details),
                 Append(fieldErrors, [field |-> field.s, message |-> message.s]))

RECURSIVE CollectFieldErrors(_, _)
\* the for loop of ErrorService.extractFieldErrors over the remaining
\* entries, fieldErrors being the entries pushed so far; the array, or
\* Thrown
CollectFieldErrors(details, fieldErrors) ==
  IF Len(details) = 0 THEN Arr(fieldErrors)
  ELSE LET err == details[1]
           field == GetProp(err, "field")
           message == GetProp(err, "message")
       IN IF err = Null \/ err = Undefined
          THEN CollectFieldErrors(Tail(details), fieldErrors)
          ELSE IF typeof(err) # "object"
          THEN CollectFieldErrors(Tail(details), fieldErrors)
          ELSE IF field = Thrown \/ message = Thrown THEN Thrown
          ELSE IF typeof(field) # "string" \/ typeof(message) # "string"
          THEN CollectFieldErrors(Tail(details), fieldErrors)
          ELSE CollectFieldErrors(Tail(details),
                 Append(fieldErrors, [field |-> field.s, message |-> message.s]))

\* extractFieldErrors leaving its loop after the first entry it pushes
extractFieldErrorsFirstOnly(backendBody) ==
  IF backendBody = Null \/ backendBody = Undefined THEN Arr(<<>>)
  ELSE IF typeof(backendBody) # "object" THEN Arr(<<>>)
  ELSE LET body == parseBackendErrorBody(backendBody)
           details == body.details
           all == CollectFieldErrors(details.e, <<>>)
       IN IF ~isArray(details) THEN Arr(<<>>)
          ELSE IF all = Thrown THEN Thrown
          ELSE IF Len(all.e) > 1 THEN Arr(<<all.e[1]>>)
          ELSE all

\* ErrorService.extractFieldErrors: an array of FieldError, or Thrown
extractFieldErrors(backendBody) ==
  IF backendBody = Null \/ backendBody = Undefined THEN Arr(<<>>)
  ELSE IF typeof(backendBody) # "object" THEN Arr(<<>>)
  ELSE LET body == parseBackendErrorBody(backendBody)
           details == body.details
       IN IF ~isArray(details) THEN Arr(<<>>)
          ELSE CollectFieldErrors(details.e, <<>>)

MsgBadRequest == "Please check your input and try again."

MsgUnauthorized == "Your session has expired. Please sign in again."

MsgForbidden == "You do not have permission to perform this action."

MsgNotFound == "The requested resource was not found."

MsgConflict == "A conflict occurred. Please refresh and try again."

MsgServer == "A server error occurred. Please try again later."

MsgRequestFailed == "Request failed. Please try again."

MsgNetwork == "Unable to reach the server. Please check your internet connection."

MsgUnexpected == "An unexpected error occurred. Please try again."

\* the params object built from a request for the ApiHttpError constructors
ApiParams(status, userMessage, statusText, backendBody, request, correlationId, cause) ==
  [status |-> status, userMessage |-> userMessage, statusText |-> statusText,
   url |-> request.urlWithParams, method |-> request.method,
   backendBody |-> backendBody, correlationId |-> correlationId,
   cause |-> cause]

\* createBadRequestError with the test written fieldErrors.length >= 0
createBadRequestErrorAlwaysValidation(params) ==
  LET fieldErrors == extractFieldErrors(params.backendBody)
      primaryMessage ==
        Coalesce(extractPrimaryMessage(params.backendBody), Str(MsgBadRequest))
      p == ApiParams(400, primaryMessage.s, params.statusText,
                     params.backendBody, params.request,
                     params.correlationId, params.cause)
  IN IF fieldErrors = Thrown THEN Thrown
     ELSE IF Len(fieldErrors.e) >= 0
          THEN ValidationError(p @@ [fieldErrors |-> fieldErrors.e])
          ELSE BadRequestError(p)

\* ErrorService.createBadRequestError
createBadRequestError(params) ==
  LET fieldErrors == extractFieldErrors(params.backendBody)
      primaryMessage ==
        Coalesce(extractPrimaryMessage(params.backendBody), Str(MsgBadRequest))
      p == ApiParams(400, primaryMessage.s, params.statusText,
                     params.backendBody, params.request,
                     params.correlationId, params.cause)
  IN IF fieldErrors = Thrown THEN Thrown
     ELSE IF Len(fieldErrors.e) > 0
          THEN ValidationError(p @@ [fieldErrors |-> fieldErrors.e])
          ELSE BadRequestError(p)

\* createFromHttpErrorResponse with the 5xx range test written status > 500
createFromHttpErrorResponseOffByOne(error, request, correlationId) ==
  LET status == error.status
      statusText == Coalesce(error.statusText, Str("")).s
      backendBody == error.error
      msg(default) == Coalesce(extractPrimaryMessage(backendBody), Str(default)).s
      api(st, m) == ApiParams(st, m, statusText, backendBody, request,
                              correlationId, error)
      plain(m) == [userMessage |-> m, correlationId |-> correlationId,
                   cause |-> error]
  IN CASE status = 0 -> NetworkError(plain(MsgNetwork))
       [] status = 400 ->
            createBadRequestError([statusText |-> statusText,
              backendBody |-> backendBody, request |-> request,
              correlationId |-> correlationId, cause |-> error])
       [] status = 401 -> UnauthorizedError(api(401, msg(MsgUnauthorized)))
       [] status = 403 -> ForbiddenError(api(403, msg(MsgForbidden)))
       [] status = 404 -> NotFoundError(api(404, msg(MsgNotFound)))
       [] status = 409 -> ConflictError(api(409, msg(MsgConflict)))
       [] OTHER ->
            IF status > 500 /\ status <= 599
            THEN ServerError(api(status, msg(MsgServer)))
            ELSE UnexpectedError(plain(msg(MsgRequestFailed)))

\* ErrorService.createFromHttpErrorResponse
createFromHttpErrorResponse(error, request, correlationId) ==
  LET status == error.status
      statusText == Coalesce(error.statusText, Str("")).s
      backendBody == error.error
      msg(default) == Coalesce(extractPrimaryMessage(backendBody), Str(default)).s
      api(st, m) == ApiParams(st, m, statusText, backendBody, request,
                              correlationId, error)
      plain(m) == [userMessage |-> m, correlationId |-> correlationId,
                   cause |-> error]
  IN CASE status = 0 -> NetworkError(plain(MsgNetwork))
       [] status = 400 ->
            createBadRequestError([statusText |-> statusText,
              backendBody |-> backendBody, request |-> request,
              correlationId |-> correlationId, cause |-> error])
       [] status = 401 -> UnauthorizedError(api(401, msg(MsgUnauthorized)))
       [] status = 403 -> ForbiddenError(api(403, msg(MsgForbidden)))
       [] status = 404 -> NotFoundError(api(404, msg(MsgNotFound)))
       [] status = 409 -> ConflictError(api(409, msg(MsgConflict)))
       [] OTHER ->
            IF status >= 500 /\ status <= 599
            THEN ServerError(api(status, msg(MsgServer)))
            ELSE UnexpectedError(plain(msg(MsgRequestFailed)))

\* createAppError without the instanceof AppError branch
createAppErrorAlwaysWraps(error, request, correlationId) ==
  IF IsHttpErrorResponse(error)
  THEN createFromHttpErrorResponse(error, request, correlationId)
  ELSE UnexpectedError([userMessage |-> MsgUnexpected,
                        correlationId |-> correlationId, cause |-> error])

\* createAppError wrapping an unknown failure as a ClientError
createAppErrorWrapsAsClientError(error, request, correlationId) ==
  IF IsHttpErrorResponse(error)
  THEN createFromHttpErrorResponse(error, request, correlationId)
  ELSE IF IsAppError(error) THEN error
  ELSE ClientError([userMessage |-> MsgUnexpected, category |-> "unknown",
                    severity |-> "error", isRetryable |-> FALSE,
                    correlationId |-> correlationId, cause |-> error])

\* ErrorService.createAppError
createAppError(error, request, correlationId) ==
  IF IsHttpErrorResponse(error)
  THEN createFromHttpErrorResponse(error, request, correlationId)
  ELSE IF IsAppError(error) THEN error
  ELSE UnexpectedError([userMessage |-> MsgUnexpected,
                        correlationId |-> correlationId, cause |-> error])

\* ------------------------------------------------------------------------
\* Inputs
\* ------------------------------------------------------------------------
\* "no value yet" in a slot of the state
NoValue == [cls |-> "none"]

FieldEntry(field, message) ==
  Obj([NoProps EXCEPT !["field"] = field, !["message"] = message])

\* { message: "Bad input", error: "Bad Request",
\*   errors: [{ field: "email", message: "invalid" }] }
BodyFieldErrors ==
  Obj([NoProps EXCEPT !["message"] = Str("Bad input"),
                      !["error"] = Str("Bad Request"),
                      !["errors"] = Arr(<<FieldEntry(Str("email"), Str("invalid"))>>)])

\* { errors: [null, {field: "email", ...}, {field: 3, ...}, undefined,
\*             {field: "name", ...}] }
BodyMixedEntries ==
  Obj([NoProps EXCEPT !["errors"] =
         Arr(<<Null, FieldEntry(Str("email"), Str("invalid")),
               FieldEntry(Num(3), Str("x")), Undefined,
               FieldEntry(Str("name"), Str("required"))>>)])

\* { errors: [{ field: "name", message: "required" },
\*            { field: "email", message: "invalid" }] }
BodyTwoFieldErrors ==
  Obj([NoProps EXCEPT !["errors"] =
         Arr(<<FieldEntry(Str("name"), Str("required")),
               FieldEntry(Str("email"), Str("invalid"))>>)])

\* { errors: ["not an object"] }
BodyMalformedErrors ==
  Obj([NoProps EXCEPT !["errors"] = Arr(<<Str("not an object")>>)])

\* error bodies a backend (or a proxy in front of it) can answer with
BackendBodies ==
  { Null,
    Str("Service unavailable"),
    Num(42),
    Arr(<<Str("x")>>),
    Obj(NoProps),
    BodyFieldErrors,
    Obj([NoProps EXCEPT !["statusCode"] = Num(400),
                        !["message"] = Arr(<<Str("name required"), Str("email invalid")>>),
                        !["error"] = Str("Bad Request")]),
    Obj([NoProps EXCEPT !["statusCode"] = Num(404),
                        !["error"] = Str("Not Found")]),
    Obj([NoProps EXCEPT !["message"] = Num(5), !["error"] = Str("")]),
    Obj([NoProps EXCEPT !["message"] = Arr(<<>>), !["error"] = Str("Conflict")]),
    Obj([NoProps EXCEPT !["message"] = Arr(<<Num(5), Null>>)]),
    BodyMalformedErrors,
    Obj([NoProps EXCEPT !["errors"] = Str("oops")]),
    Obj([NoProps EXCEPT !["errors"] = Arr(<<>>)]),
    BodyTwoFieldErrors,
    BodyMixedEntries }

\* status codes: every row of the table, the edges of the 5xx range, and
\* codes outside the table
Statuses == {0, 200, 302, 400, 401, 402, 403, 404, 409, 418, 499, 500, 503,
             599, 600, 999}

\* values of the x-correlation-id response header (null: header not sent)
CorrelationHeaders == {Null, Str("abc-123")}

\* an HttpErrorResponse
HttpErrorResponse(status, statusText, body, header) ==
  [cls |-> "HttpErrorResponse", status |-> status, statusText |-> statusText,
   error |-> body, headers |-> [xCorrelationId |-> header]]

\* an HttpRequest: URL with query, method, and the context flag
HttpRequest(url, method, skip) ==
  [urlWithParams |-> url, method |-> method, skip |-> skip]

\* failures that are not an HttpErrorResponse: a plain Error, a thrown
\* string, and AppError instances built elsewhere
OtherFailures ==
  { [cls |-> "Error", message |-> "boom"],
    [cls |-> "primitive", v |-> Str("oops")],
    ClientError([userMessage |-> "Select a group first.",
                 category |-> "validation", severity |-> "info",
                 isRetryable |-> FALSE, correlationId |-> Undefined,
                 cause |-> Undefined]),
    TimeoutError([userMessage |-> "The request timed out.",
                  correlationId |-> Undefined, cause |-> Undefined]),
    UnauthorizedError([userMessage |-> MsgUnauthorized, statusText |-> "",
                       url |-> "/auth/whoami", method |-> "GET",
                       backendBody |-> Null, correlationId |-> Undefined,
                       cause |-> Undefined]) }

ClassifierFailures ==
  { HttpErrorResponse(st, tx, b, Null) :
      st \in Statuses, tx \in {Str(""), Str("Unknown Error")},
      b \in BackendBodies }
  \cup OtherFailures

ClassifierRequests ==
  { HttpRequest("/groups?page=1", "GET", FALSE),
    HttpRequest("/users", "POST", FALSE) }

ClassifierCorrelationIds == {Undefined, Str("abc-123")}

\* ------------------------------------------------------------------------
\* State
\* ------------------------------------------------------------------------
VARIABLES
  cls,            \* a call of createAppError and a second call on its result
  reqs,           \* per request slot: position in the interceptor and locals
  running,        \* slot whose catchError callback is executing, 0 if none
  activeToasts,   \* NotificationService.activeToastsSignal
  nextId,         \* NotificationService.nextId
  navigations,    \* commands of the router.navigate calls made so far
  currentLocale,  \* LocaleService.currentLocaleSignal
  routerUrl,      \* Router.url, as the parts url.split('/') gives
  cachedUser,     \* window.localStorage entry 'current-user'
  lastCall        \* the last call a component or the router made, its
                  \* arguments, what it returned and the state it found

vars == <<cls, reqs, running, activeToasts, nextId, navigations, currentLocale, routerUrl, cachedUser, lastCall>>

shellVars == <<routerUrl, cachedUser, lastCall>>

pipelineVars == <<reqs, running, activeToasts, nextId, navigations, currentLocale, routerUrl, cachedUser, lastCall>>

\* ------------------------------------------------------------------------
\* NotificationService
\* ------------------------------------------------------------------------
ErrorToastDelayMs == 6000
SuccessToastDelayMs == 3500
InfoToastDelayMs == 4500
WarningToastDelayMs == 6000

\* NotificationService.mapSeverityToToastType
mapSeverityToToastType(severity) ==
  CASE severity = "info" -> "info"
    [] severity = "warning" -> "warning"
    [] severity = "critical" -> "error"
    [] OTHER -> "error"

\* showToast numbering the toast by its position in the queue
showToastIdFromLength(params) ==
  LET toast == [id |-> Len(activeToasts) + 1, message |-> params.message,
                type |-> params.type, autohide |-> params.autohide,
                delayMs |-> params.delayMs]
  IN /\ nextId' = nextId + 1
     /\ activeToasts' = Append(activeToasts, toast)

\* NotificationService.showToast
showToast(params) ==
  LET toast == [id |-> nextId, message |-> params.message,
                type |-> params.type, autohide |-> params.autohide,
                delayMs |-> params.delayMs]
  IN /\ nextId' = nextId + 1
     /\ activeToasts' = Append(activeToasts, toast)

\* showErrorFromAppError showing the Error message text "Error"
showErrorFromAppErrorGenericText(error) ==
  showToast([message |-> "Error",
             type |-> mapSeverityToToastType(error.severity),
             autohide |-> TRUE, delayMs |-> ErrorToastDelayMs])

\* NotificationService.showErrorFromAppError
showErrorFromAppError(error) ==
  showToast([message |-> error.userMessage,
             type |-> mapSeverityToToastType(error.severity),
             autohide |-> TRUE, delayMs |-> ErrorToastDelayMs])

\* NotificationService.showSuccess
showSuccess(message) ==
  showToast([message |-> message, type |-> "success", autohide |-> TRUE,
             delayMs |-> SuccessToastDelayMs])

\* NotificationService.showInfo
showInfo(message) ==
  showToast([message |-> message, type |-> "info", autohide |-> TRUE,
             delayMs |-> InfoToastDelayMs])

\* NotificationService.showWarning
showWarning(message) ==
  showToast([message |-> message, type |-> "warning", autohide |-> TRUE,
             delayMs |-> WarningToastDelayMs])

\* dismissToast taking its argument for a position in the queue
dismissToastAtPosition(toastId) ==
  LET keep(i) == i # toastId
      kept == SelectSeq([i \in DOMAIN activeToasts |-> i], keep)
  IN /\ activeToasts' = [k \in DOMAIN kept |-> activeToasts[kept[k]]]
     /\ UNCHANGED nextId

\* NotificationService.dismissToast
dismissToast(toastId) ==
  LET keep(toast) == toast.id # toastId
  IN /\ activeToasts' = SelectSeq(activeToasts, keep)
     /\ UNCHANGED nextId

\* ------------------------------------------------------------------------
\* LocaleService
\* ------------------------------------------------------------------------
SupportedLocales == {"en-EN", "fr-FR"}

DefaultLocale == "en-EN"

\* url.split('/').filter(segment => segment.length > 0), on the parts
\* split('/') gives
Segments(url) ==
  LET nonEmpty(segment) == segment # ""
  IN SelectSeq(url, nonEmpty)

\* LocaleService.isValidLocale
isValidLocale(locale) == locale \in SupportedLocales

\* LocaleService.getLocaleFromUrl
getLocaleFromUrl(urlSegments) ==
  IF Len(urlSegments) = 0 THEN DefaultLocale
  ELSE IF isValidLocale(urlSegments[1]) THEN urlSegments[1]
  ELSE DefaultLocale

\* LocaleService.getPathWithoutLocale
getPathWithoutLocale(urlSegments) ==
  IF Len(urlSegments) = 0 THEN <<>>
  ELSE IF isValidLocale(urlSegments[1]) THEN Tail(urlSegments)
  ELSE urlSegments

\* setLocale storing the string it is given
setLocaleUnchecked(locale) == currentLocale' = locale

\* LocaleService.setLocale
setLocale(locale) ==
  currentLocale' = IF isValidLocale(locale) THEN locale ELSE DefaultLocale

\* LocaleService.extractLanguage: locale.split('-')[0]
extractLanguage(locale) ==
  CASE locale = "en-EN" -> "en"
    [] locale = "fr-FR" -> "fr"

\* document.documentElement.lang, which setLocale sets from the locale it
\* stores
documentLanguage == extractLanguage(currentLocale)

\* LocaleService.navigateWithLocale: the router.navigate call it makes
navigateWithLocale(commands) ==
  LET locale == currentLocale
      localizedCommands == <<locale>> \o commands
  IN navigations' = Append(navigations, localizedCommands)

\* ------------------------------------------------------------------------
\* LocaleGuard
\* ------------------------------------------------------------------------
\* LOCALE_ID of the build
LocaleIds == {"en-US", "fr"}

\* LocaleGuard.mapLocaleIdToCode
mapLocaleIdToCode(localeId) == IF localeId = "fr" THEN "fr" ELSE "en-EN"

\* LocaleGuard.redirectToDefaultLocale: the router.navigate call it makes
redirectToDefaultLocale(localeId) ==
  LET defaultLocale == mapLocaleIdToCode(localeId)
  IN navigations' = Append(navigations, <<"/" \o defaultLocale>>)

\* LocaleGuard.redirectToDefaultLocaleWithPath
redirectToDefaultLocaleWithPath(urlSegments) ==
  LET defaultLocale == DefaultLocale
      pathWithoutLocale == urlSegments
      redirectUrl == <<defaultLocale>> \o pathWithoutLocale
  IN navigations' = Append(navigations, redirectUrl)

\* ------------------------------------------------------------------------
\* AuthService: the cache of the current user in localStorage
\* ------------------------------------------------------------------------
\* a UserDto as the backend returns it
UserDto == [t |-> "object", id |-> Num(7), email |-> Str("ada@example.org")]

\* JSON.stringify(value): undefined for undefined, else a text that
\* JSON.parse gives value back from
JSONstringify(value) ==
  IF value = Undefined THEN Undefined ELSE [t |-> "string", json |-> value]

\* JSON.parse(text): throws on a text that is not JSON, "undefined" or ""
JSONparse(text) == IF "json" \in DOMAIN text THEN text.json ELSE Thrown

\* localStorage.setItem stores String(value)
setItem(value) == IF value = Undefined THEN Str("undefined") ELSE value

\* AuthService.cacheCurrentUser
cacheCurrentUser(user) == cachedUser' = setItem(JSONstringify(user))

\* AuthService.clearCachedUser
clearCachedUser == cachedUser' = Null

\* AuthService.getCachedUser on a localStorage entry
getCachedUser(stored) ==
  IF stored = Null \/ stored = Str("") THEN Null
  ELSE IF JSONparse(stored) = Thrown THEN Null
  ELSE JSONparse(stored)

\* AuthService.getCurrentUserId on a localStorage entry
getCurrentUserId(stored) ==
  LET user == getCachedUser(stored)
      id == IF user.t = "object" /\ "id" \in DOMAIN user
            THEN user.id ELSE Undefined
  IN IF user # Null /\ id # Undefined THEN id ELSE Null

\* AuthService.isAuthenticated on a localStorage entry
isAuthenticated(stored) == getCurrentUserId(stored) # Null

\* ------------------------------------------------------------------------
\* httpErrorInterceptor
\* ------------------------------------------------------------------------
Slots == 1..MaxReq

\* the request a slot carries; the opt-out flag is the caller's choice
SlotRequest(r, skip) ==
  HttpRequest("/api/resource/" \o ToString(r),
              IF r % 2 = 1 THEN "GET" ELSE "POST", skip)

\* failures the downstream handler reports to the interceptor
PipelineFailures ==
  { HttpErrorResponse(st, Str(""), Null, Null) :
      st \in {0, 400, 401, 403, 404, 409, 500, 503, 999} }
  \cup
  { HttpErrorResponse(st, Str(""), BodyFieldErrors, Str("abc-123")) :
      st \in {0, 400, 401, 403, 404, 409, 500, 503, 999} }
  \cup { HttpErrorResponse(503, Str(""), Str("Service unavailable"), Null) }
  \cup OtherFailures

\* responses of a successful request
Responses ==
  { [cls |-> "HttpResponse", status |-> 200, body |-> Str("[]")],
    [cls |-> "HttpResponse", status |-> 204, body |-> Null] }

IdleSlot ==
  [pc |-> "idle", req |-> NoValue, piped |-> FALSE, raw |-> NoValue,
   correlationId |-> NoValue, appError |-> NoValue, delivered |-> NoValue,
   log |-> <<>>, attempts |-> 0, service |-> "none", received |-> NoValue]

\* the opt-out test never taking the early return
SkipGlobalErrorHandlingIgnored(req) == FALSE

\* req.context.get(SKIP_GLOBAL_ERROR_HANDLING) === true
SkipGlobalErrorHandling(req) == req.skip = TRUE

\* the redirect test also taken for a ForbiddenError
IsUnauthorizedOrForbiddenError(appError) ==
  IsAppError(appError)
  /\ appError.name \in {"UnauthorizedError", "ForbiddenError"}

\* appError instanceof UnauthorizedError
IsUnauthorizedError(appError) ==
  IsAppError(appError) /\ appError.name = "UnauthorizedError"

\* the correlation id never read from the response
ExtractCorrelationIdDropped(err) == Undefined

\* err.headers?.get('x-correlation-id') ?? undefined, or undefined when err
\* is not an HttpErrorResponse
ExtractCorrelationId(err) ==
  IF IsHttpErrorResponse(err)
  THEN Coalesce(err.headers.xCorrelationId, Undefined)
  ELSE Undefined

\* the interceptor is called with the request of slot r: it either returns
\* next(req) as it is or pipes it through catchError
Intercept(r, skip) ==
  /\ running = 0
  /\ reqs[r].pc = "idle"
  /\ IF r = 1 THEN TRUE ELSE reqs[r - 1].pc # "idle"
  /\ LET req == SlotRequest(r, skip)
     IN reqs' = [reqs EXCEPT ![r].pc = "inflight", ![r].req = req,
                              ![r].piped = ~SkipGlobalErrorHandling(req),
                              ![r].attempts = @ + 1]
  /\ UNCHANGED <<shellVars, cls, running, activeToasts, nextId, navigations, currentLocale>>

\* Succeed also announcing the response in a toast
SucceedWithToast(r, resp) ==
  /\ running = 0
  /\ reqs[r].pc = "inflight"
  /\ reqs' = [reqs EXCEPT ![r].pc = "done", ![r].raw = resp,
                           ![r].delivered = resp,
                           ![r].log = Append(@, [ev |-> "deliver"])]
  /\ showToast([message |-> "Done", type |-> "success", autohide |-> TRUE,
                delayMs |-> ErrorToastDelayMs])
  /\ UNCHANGED <<shellVars, cls, running, navigations, currentLocale>>

\* next(req) emits its response: it reaches the caller as it is
Succeed(r, resp) ==
  /\ running = 0
  /\ reqs[r].pc = "inflight"
  /\ reqs' = [reqs EXCEPT ![r].pc = "done", ![r].raw = resp,
                           ![r].delivered = resp,
                           ![r].log = Append(@, [ev |-> "deliver"])]
  /\ UNCHANGED <<shellVars, cls, running, activeToasts, nextId, navigations, currentLocale>>

\* Fail calling next(req) once more after the first failure
FailRetryingOnce(r, err) ==
  /\ running = 0
  /\ reqs[r].pc = "inflight"
  /\ IF reqs[r].attempts < 2
     THEN /\ reqs' = [reqs EXCEPT ![r].attempts = @ + 1]
          /\ running' = 0
     ELSE IF reqs[r].piped
     THEN /\ reqs' = [reqs EXCEPT ![r].pc = "catch", ![r].raw = err]
          /\ running' = r
     ELSE /\ reqs' = [reqs EXCEPT ![r].pc = "done", ![r].raw = err,
                                   ![r].delivered = err,
                                   ![r].log = Append(@, [ev |-> "deliver"])]
          /\ running' = 0
  /\ UNCHANGED <<shellVars, cls, activeToasts, nextId, navigations, currentLocale>>

\* next(req) fails with err: without catchError the caller gets err, with
\* it the catchError callback starts
Fail(r, err) ==
  /\ running = 0
  /\ reqs[r].pc = "inflight"
  /\ IF reqs[r].piped
     THEN /\ reqs' = [reqs EXCEPT ![r].pc = "catch", ![r].raw = err]
          /\ running' = r
     ELSE /\ reqs' = [reqs EXCEPT ![r].pc = "done", ![r].raw = err,
                                   ![r].delivered = err,
                                   ![r].log = Append(@, [ev |-> "deliver"])]
          /\ running' = 0
  /\ UNCHANGED <<shellVars, cls, activeToasts, nextId, navigations, currentLocale>>

\* Classify building the error from the request intercepted last
ClassifyWithLastRequest(r) ==
  /\ running = r
  /\ reqs[r].pc = "catch"
  /\ LET err == reqs[r].raw
         last == CHOOSE q \in Slots :
                   /\ reqs[q].pc # "idle"
                   /\ \A p \in Slots : reqs[p].pc # "idle" => p <= q
         correlationId == ExtractCorrelationId(err)
         appError == createAppError(err, reqs[last].req, correlationId)
     IN /\ reqs' = [reqs EXCEPT ![r].pc = "notify",
                                 ![r].correlationId = correlationId,
                                 ![r].appError = appError]
        /\ running' = r
  /\ UNCHANGED <<shellVars, cls, activeToasts, nextId, navigations, currentLocale>>

\* callback, first statements: correlation id and createAppError; an
\* exception thrown here would reach the caller instead
Classify(r) ==
  /\ running = r
  /\ reqs[r].pc = "catch"
  /\ LET err == reqs[r].raw
         correlationId == ExtractCorrelationId(err)
         appError == createAppError(err, reqs[r].req, correlationId)
     IN IF appError = Thrown
        THEN /\ reqs' = [reqs EXCEPT ![r].pc = "done",
                                      ![r].correlationId = correlationId,
                                      ![r].delivered = Thrown,
                                      ![r].log = Append(@, [ev |-> "deliver"])]
             /\ running' = 0
        ELSE /\ reqs' = [reqs EXCEPT ![r].pc = "notify",
                                      ![r].correlationId = correlationId,
                                      ![r].appError = appError]
             /\ running' = r
  /\ UNCHANGED <<shellVars, cls, activeToasts, nextId, navigations, currentLocale>>

\* Notify going on to the re-throw whatever the error is
NotifyNeverNavigates(r) ==
  /\ running = r
  /\ reqs[r].pc = "notify"
  /\ showErrorFromAppError(reqs[r].appError)
  /\ reqs' = [reqs EXCEPT
       ![r].pc = "rethrow",
       ![r].log = Append(@, [ev |-> "notify", arg |-> reqs[r].appError,
                             toastId |-> nextId])]
  /\ UNCHANGED <<shellVars, cls, running, navigations, currentLocale>>

\* callback: the toast, then the instanceof UnauthorizedError test
Notify(r) ==
  /\ running = r
  /\ reqs[r].pc = "notify"
  /\ showErrorFromAppError(reqs[r].appError)
  /\ reqs' = [reqs EXCEPT
       ![r].pc = IF IsUnauthorizedError(reqs[r].appError)
                 THEN "navigate" ELSE "rethrow",
       ![r].log = Append(@, [ev |-> "notify", arg |-> reqs[r].appError,
                             toastId |-> nextId])]
  /\ UNCHANGED <<shellVars, cls, running, navigations, currentLocale>>

\* Navigate also ending the cached session
NavigateClearingSession(r) ==
  /\ running = r
  /\ reqs[r].pc = "navigate"
  /\ navigateWithLocale(<<"login">>)
  /\ clearCachedUser
  /\ reqs' = [reqs EXCEPT ![r].pc = "rethrow",
                           ![r].log = Append(@, [ev |-> "navigate"])]
  /\ UNCHANGED <<routerUrl, lastCall, cls, running, activeToasts, nextId, currentLocale>>

\* callback: void localeService.navigateWithLocale(['login'])
Navigate(r) ==
  /\ running = r
  /\ reqs[r].pc = "navigate"
  /\ navigateWithLocale(<<"login">>)
  /\ reqs' = [reqs EXCEPT ![r].pc = "rethrow",
                           ![r].log = Append(@, [ev |-> "navigate"])]
  /\ UNCHANGED <<shellVars, cls, running, activeToasts, nextId, currentLocale>>

\* Rethrow handing the caller the failure the callback was given
RethrowRaw(r) ==
  /\ running = r
  /\ reqs[r].pc = "rethrow"
  /\ reqs' = [reqs EXCEPT ![r].pc = "done", ![r].delivered = reqs[r].raw,
                           ![r].log = Append(@, [ev |-> "deliver"])]
  /\ running' = 0
  /\ UNCHANGED <<shellVars, cls, activeToasts, nextId, navigations, currentLocale>>

\* callback: return throwError(() => appError); the caller gets appError
Rethrow(r) ==
  /\ running = r
  /\ reqs[r].pc = "rethrow"
  /\ reqs' = [reqs EXCEPT ![r].pc = "done", ![r].delivered = reqs[r].appError,
                           ![r].log = Append(@, [ev |-> "deliver"])]
  /\ running' = 0
  /\ UNCHANGED <<shellVars, cls, activeToasts, nextId, navigations, currentLocale>>

\* ------------------------------------------------------------------------
\* Specification of the pipeline
\* ------------------------------------------------------------------------
ClsIdle ==
  [pc |-> "idle", error |-> NoValue, request |-> NoValue,
   correlationId |-> NoValue, result |-> NoValue, request2 |-> NoValue,
   correlationId2 |-> NoValue, again |-> NoValue]

\* Router.url when LocaleService is constructed: "/" or "/fr-FR/dashboard"
InitialUrls == {<<"", "">>, <<"", "fr-FR", "dashboard">>}

NoCall == [op |-> "none"]

\* services after construction, no request intercepted yet
InitPipeline ==
  /\ reqs = [r \in Slots |-> IdleSlot]
  /\ running = 0
  /\ activeToasts = <<>>
  /\ nextId = 1
  /\ navigations = <<>>
  /\ routerUrl \in InitialUrls
  /\ currentLocale = getLocaleFromUrl(Segments(routerUrl))
  /\ lastCall = NoCall

Init ==
  /\ cls = ClsIdle
  /\ InitPipeline
  /\ cachedUser = Null

Next ==
  \/ \E r \in Slots, skip \in BOOLEAN : Intercept(r, skip)
  \/ \E r \in Slots, resp \in Responses : Succeed(r, resp)
  \/ \E r \in Slots, err \in PipelineFailures : Fail(r, err)
  \/ \E r \in Slots : Classify(r)
  \/ \E r \in Slots : Notify(r)
  \/ \E r \in Slots : Navigate(r)
  \/ \E r \in Slots : Rethrow(r)

Spec == Init /\ [][Next]_vars

\* ------------------------------------------------------------------------
\* Specification of the classifier alone
\* ------------------------------------------------------------------------
\* createAppError is called on the drawn input
ClassifyOnce ==
  /\ cls.pc = "input"
  /\ cls' = [cls EXCEPT !.pc = "classified",
                         !.result = createAppError(cls.error, cls.request,
                                                   cls.correlationId)]
  /\ UNCHANGED pipelineVars

\* createAppError is called on the result of the first call, as an outer
\* pipeline layer would, with that layer's request and correlation id
ClassifyAgain(request2, correlationId2) ==
  /\ cls.pc = "classified"
  /\ cls.result # Thrown
  /\ cls' = [cls EXCEPT !.pc = "reclassified",
                         !.request2 = request2,
                         !.correlationId2 = correlationId2,
                         !.again = createAppError(cls.result, request2,
                                                  correlationId2)]
  /\ UNCHANGED pipelineVars

InitClassifier ==
  /\ cls \in [pc : {"input"}, error : ClassifierFailures,
               request : ClassifierRequests,
               correlationId : ClassifierCorrelationIds,
               result : {NoValue}, request2 : {NoValue},
               correlationId2 : {NoValue}, again : {NoValue}]
  /\ InitPipeline
  /\ cachedUser = Null

NextClassifier ==
  \/ ClassifyOnce
  \/ \E request2 \in ClassifierRequests,
        correlationId2 \in ClassifierCorrelationIds :
          ClassifyAgain(request2, correlationId2)

SpecClassifier == InitClassifier /\ [][NextClassifier]_vars

\* ------------------------------------------------------------------------
\* Specification of the notification service alone: its public methods
\* called in any order by components and by the interceptor
\* ------------------------------------------------------------------------
NotifiedErrors ==
  {createAppError(HttpErrorResponse(404, Str("Not Found"), Null, Null),
                  SlotRequest(1, FALSE), Undefined),
   createAppError(HttpErrorResponse(500, Str("Internal Server Error"), Null,
                                    Null),
                  SlotRequest(1, FALSE), Undefined)}

ToastMessages == {"Saved"}

otherVars == <<cls, reqs, running, navigations, currentLocale, routerUrl, cachedUser>>

\* what a call found: the state of NotificationService before it
ToastsBefore == [activeToasts |-> activeToasts, nextId |-> nextId]

ShowErrorFromAppError(error) ==
  /\ nextId <= MaxToasts
  /\ showErrorFromAppError(error)
  /\ lastCall' = [op |-> "showErrorFromAppError", arg |-> error,
                  result |-> Undefined, before |-> ToastsBefore]
  /\ UNCHANGED otherVars

ShowSuccess(message) ==
  /\ nextId <= MaxToasts
  /\ showSuccess(message)
  /\ lastCall' = [op |-> "showSuccess", arg |-> message,
                  result |-> Undefined, before |-> ToastsBefore]
  /\ UNCHANGED otherVars

ShowInfo(message) ==
  /\ nextId <= MaxToasts
  /\ showInfo(message)
  /\ lastCall' = [op |-> "showInfo", arg |-> message,
                  result |-> Undefined, before |-> ToastsBefore]
  /\ UNCHANGED otherVars

ShowWarning(message) ==
  /\ nextId <= MaxToasts
  /\ showWarning(message)
  /\ lastCall' = [op |-> "showWarning", arg |-> message,
                  result |-> Undefined, before |-> ToastsBefore]
  /\ UNCHANGED otherVars

DismissToast(toastId) ==
  /\ dismissToast(toastId)
  /\ lastCall' = [op |-> "dismissToast", arg |-> toastId,
                  result |-> Undefined, before |-> ToastsBefore]
  /\ UNCHANGED otherVars

NextNotification ==
  \/ \E error \in NotifiedErrors : ShowErrorFromAppError(error)
  \/ \E message \in ToastMessages : ShowSuccess(message)
  \/ \E message \in ToastMessages : ShowInfo(message)
  \/ \E message \in ToastMessages : ShowWarning(message)
  \/ \E toastId \in 1..(MaxToasts + 1) : DismissToast(toastId)

SpecNotification == Init /\ [][NextNotification]_vars

\* ------------------------------------------------------------------------
\* Specification of the locale routing: the router runs LocaleGuard on the
\* URLs it is asked for, components call setLocale and the locale switcher
\* ------------------------------------------------------------------------
\* state.url of the navigations the guard is run on, split at '/'
GuardUrls ==
  { <<"", "">>,
    <<"", "en-EN", "dashboard">>,
    <<"", "fr-FR", "problem-add">>,
    <<"", "invalid-locale", "dashboard">>,
    <<"", "fr">>,
    <<"", "en-EN", "invalid-locale", "dashboard">> }

\* strings setLocale is called with
LocaleStrings == {"en-EN", "fr-FR", "fr", "de-DE", ""}

\* what a call found: the state of the locale routing before it
LocaleBefore ==
  [navigations |-> navigations, currentLocale |-> currentLocale,
   routerUrl |-> routerUrl]

localeFrame == <<cls, reqs, running, activeToasts, nextId, cachedUser>>

\* LocaleService.setLocale called by a component
SetLocale(locale) ==
  /\ setLocale(locale)
  /\ lastCall' = [op |-> "setLocale", arg |-> locale, result |-> Undefined,
                  before |-> LocaleBefore]
  /\ UNCHANGED <<navigations, routerUrl>>
  /\ UNCHANGED localeFrame

\* LocaleGuard.canActivate run by the router on state.url = url; when it
\* returns true the router activates the route and Router.url becomes url
CanActivate(url, localeId) ==
  /\ Len(navigations) < MaxNav
  /\ LET urlSegments == Segments(url)
         locale == urlSegments[1]
     IN IF Len(urlSegments) = 0
        THEN /\ redirectToDefaultLocale(localeId)
             /\ lastCall' = [op |-> "canActivate", arg |-> url,
                             result |-> FALSE, before |-> LocaleBefore]
             /\ UNCHANGED <<currentLocale, routerUrl>>
        ELSE IF isValidLocale(locale) = FALSE
        THEN /\ redirectToDefaultLocaleWithPath(urlSegments)
             /\ lastCall' = [op |-> "canActivate", arg |-> url,
                             result |-> FALSE, before |-> LocaleBefore]
             /\ UNCHANGED <<currentLocale, routerUrl>>
        ELSE /\ setLocale(locale)
             /\ lastCall' = [op |-> "canActivate", arg |-> url,
                             result |-> TRUE, before |-> LocaleBefore]
             /\ routerUrl' = url
             /\ UNCHANGED navigations
  /\ UNCHANGED localeFrame

\* LocaleSwitcherComponent.switchLocale
SwitchLocale(locale) ==
  /\ Len(navigations) < MaxNav
  /\ lastCall' = [op |-> "switchLocale", arg |-> locale, result |-> Undefined,
                  before |-> LocaleBefore]
  /\ IF locale = currentLocale
     THEN UNCHANGED navigations
     ELSE LET currentUrl == routerUrl
              urlSegments == Segments(currentUrl)
              pathWithoutLocale == getPathWithoutLocale(urlSegments)
          IN navigateWithLocale(pathWithoutLocale)
  /\ UNCHANGED <<currentLocale, routerUrl>>
  /\ UNCHANGED localeFrame

NextLocale ==
  \/ \E locale \in LocaleStrings : SetLocale(locale)
  \/ \E url \in GuardUrls, localeId \in LocaleIds : CanActivate(url, localeId)
  \/ \E locale \in SupportedLocales : SwitchLocale(locale)

SpecLocale == Init /\ [][NextLocale]_vars

\* ------------------------------------------------------------------------
\* Specification of the backend services: their requests go through the
\* interceptor, and their own map and catchError operators see what the
\* interceptor delivers
\* ------------------------------------------------------------------------
ServiceMethods ==
  {"DBGroupService.createGroup", "DBUserService.createUser",
   "DBProblemService.createProblem", "AuthService.signIn",
   "AuthService.signOut", "AuthService.getCurrentUser"}

\* the request a service method hands to HttpClient; none sets the opt-out
ServiceRequest(method) ==
  CASE method = "DBGroupService.createGroup" ->
         HttpRequest("http://localhost:3000/group", "POST", FALSE)
    [] method = "DBUserService.createUser" ->
         HttpRequest("http://localhost:3000/user", "POST", FALSE)
    [] method = "DBProblemService.createProblem" ->
         HttpRequest("http://localhost:3000/problem", "POST", FALSE)
    [] method = "AuthService.signIn" ->
         HttpRequest("http://localhost:3000/auth/signin", "POST", FALSE)
    [] method = "AuthService.signOut" ->
         HttpRequest("http://localhost:3000/auth/signout", "POST", FALSE)
    [] method = "AuthService.getCurrentUser" ->
         HttpRequest("http://localhost:3000/auth/whoami", "GET", FALSE)

\* the message of the Error the method's catchError throws
ServiceErrorMessage(method) ==
  CASE method = "DBGroupService.createGroup" -> "Failed to create group"
    [] method = "DBUserService.createUser" -> "Failed to create user"
    [] method = "DBProblemService.createProblem" -> "Failed to create problem"
    [] method = "AuthService.signIn" ->
         "Failed to sign in. Please check your credentials."
    [] method = "AuthService.signOut" -> "Failed to sign out"

ServiceResponses == {[cls |-> "HttpResponse", status |-> 200, body |-> UserDto]}

ServiceFailures ==
  { HttpErrorResponse(401, Str("Unauthorized"), Null, Null),
    HttpErrorResponse(500, Str("Internal Server Error"), Null, Null) }

\* localStorage entry 'current-user' when the application starts
StoredUsers == {Null, setItem(JSONstringify(UserDto))}

\* what the subscriber of a service method gets
Emitted(value) == [kind |-> "next", value |-> value, found |-> cachedUser]

Errored(error) == [kind |-> "error", value |-> error, found |-> cachedUser]

\* a service method is called and subscribed to: HttpClient runs the
\* interceptor on its request
CallService(r, method) ==
  /\ running = 0
  /\ reqs[r].pc = "idle"
  /\ IF r = 1 THEN TRUE ELSE reqs[r - 1].pc # "idle"
  /\ LET req == ServiceRequest(method)
     IN reqs' = [reqs EXCEPT ![r].pc = "inflight", ![r].req = req,
                              ![r].piped = ~SkipGlobalErrorHandling(req),
                              ![r].attempts = @ + 1,
                              ![r].service = method]
  /\ UNCHANGED <<shellVars, cls, running, activeToasts, nextId, navigations, currentLocale>>

\* the map operator of the service method on the response
ServiceMap(r) ==
  /\ running = 0
  /\ reqs[r].pc = "done"
  /\ reqs[r].service # "none"
  /\ reqs[r].delivered.cls = "HttpResponse"
  /\ LET user == reqs[r].delivered.body
     IN CASE reqs[r].service \in {"AuthService.signIn", "AuthService.getCurrentUser"} ->
               /\ cacheCurrentUser(user)
               /\ reqs' = [reqs EXCEPT ![r].pc = "settled",
                                        ![r].received = Emitted(user)]
          [] reqs[r].service = "AuthService.signOut" ->
               /\ clearCachedUser
               /\ reqs' = [reqs EXCEPT ![r].pc = "settled",
                                        ![r].received = Emitted(Undefined)]
          [] OTHER ->
               /\ UNCHANGED cachedUser
               /\ reqs' = [reqs EXCEPT ![r].pc = "settled",
                                        ![r].received = Emitted(user)]
  /\ UNCHANGED <<routerUrl, lastCall, cls, running, activeToasts, nextId, navigations, currentLocale>>

\* catchError of the service methods letting the error through
ServiceCatchErrorPassingOn(r) ==
  /\ running = 0
  /\ reqs[r].pc = "done"
  /\ reqs[r].service # "none"
  /\ reqs[r].delivered.cls # "HttpResponse"
  /\ reqs' = [reqs EXCEPT ![r].pc = "settled",
                           ![r].received = Errored(reqs[r].delivered)]
  /\ IF reqs[r].service \in {"AuthService.signOut", "AuthService.getCurrentUser"}
     THEN clearCachedUser ELSE UNCHANGED cachedUser
  /\ UNCHANGED <<routerUrl, lastCall, cls, running, activeToasts, nextId, navigations, currentLocale>>

\* catchError of signOut not clearing the cache, and that of signIn
\* clearing it
ServiceCatchErrorCacheSwapped(r) ==
  /\ running = 0
  /\ reqs[r].pc = "done"
  /\ reqs[r].service # "none"
  /\ reqs[r].delivered.cls # "HttpResponse"
  /\ CASE reqs[r].service = "AuthService.getCurrentUser" ->
            /\ clearCachedUser
            /\ reqs' = [reqs EXCEPT ![r].pc = "settled",
                                     ![r].received = Emitted(Null)]
       [] reqs[r].service = "AuthService.signIn" ->
            /\ clearCachedUser
            /\ reqs' = [reqs EXCEPT
                 ![r].pc = "settled",
                 ![r].received = Errored([cls |-> "Error",
                   message |-> ServiceErrorMessage(reqs[r].service)])]
       [] OTHER ->
            /\ UNCHANGED cachedUser
            /\ reqs' = [reqs EXCEPT
                 ![r].pc = "settled",
                 ![r].received = Errored([cls |-> "Error",
                   message |-> ServiceErrorMessage(reqs[r].service)])]
  /\ UNCHANGED <<routerUrl, lastCall, cls, running, activeToasts, nextId, navigations, currentLocale>>

\* the catchError operator of the service method on the error the
\* interceptor delivers
ServiceCatchError(r) ==
  /\ running = 0
  /\ reqs[r].pc = "done"
  /\ reqs[r].service # "none"
  /\ reqs[r].delivered.cls # "HttpResponse"
  /\ CASE reqs[r].service = "AuthService.getCurrentUser" ->
            /\ clearCachedUser
            /\ reqs' = [reqs EXCEPT ![r].pc = "settled",
                                     ![r].received = Emitted(Null)]
       [] reqs[r].service = "AuthService.signOut" ->
            /\ clearCachedUser
            /\ reqs' = [reqs EXCEPT
                 ![r].pc = "settled",
                 ![r].received = Errored([cls |-> "Error",
                   message |-> ServiceErrorMessage(reqs[r].service)])]
       [] OTHER ->
            /\ UNCHANGED cachedUser
            /\ reqs' = [reqs EXCEPT
                 ![r].pc = "settled",
                 ![r].received = Errored([cls |-> "Error",
                   message |-> ServiceErrorMessage(reqs[r].service)])]
  /\ UNCHANGED <<routerUrl, lastCall, cls, running, activeToasts, nextId, navigations, currentLocale>>

InitServices ==
  /\ cls = ClsIdle
  /\ InitPipeline
  /\ cachedUser \in StoredUsers

NextServices ==
  \/ \E r \in Slots, method \in ServiceMethods : CallService(r, method)
  \/ \E r \in Slots, resp \in ServiceResponses : Succeed(r, resp)
  \/ \E r \in Slots, err \in ServiceFailures : Fail(r, err)
  \/ \E r \in Slots : Classify(r)
  \/ \E r \in Slots : Notify(r)
  \/ \E r \in Slots : Navigate(r)
  \/ \E r \in Slots : Rethrow(r)
  \/ \E r \in Slots : ServiceMap(r)
  \/ \E r \in Slots : ServiceCatchError(r)

SpecServices == InitServices /\ [][NextServices]_vars

\* ------------------------------------------------------------------------
\* Properties of the classifier (SpecClassifier)
\* ------------------------------------------------------------------------
AppErrorNames ==
  {"BadRequestError", "ValidationError", "UnauthorizedError",
   "ForbiddenError", "NotFoundError", "ConflictError", "ServerError",
   "NetworkError", "UnexpectedError", "ClientError", "TimeoutError"}

Classified == cls.pc \in {"classified", "reclassified"}

\* C1: createAppError is total: whatever the raw failure (an
\* HttpErrorResponse of any status and body shape, any other thrown value,
\* an AppError), the call returns an AppError and does not throw.
Totality ==
  Classified =>
    /\ cls.result # Thrown
    /\ IsAppError(cls.result)
    /\ cls.result.name \in AppErrorNames
    /\ cls.result.category \in ErrorCategory
    /\ cls.result.severity \in ErrorSeverity
    /\ cls.result.isRetryable \in BOOLEAN

\* a 400 whose errors array holds null and undefined entries was classified
TotalityWitness ==
  /\ Classified
  /\ IsHttpErrorResponse(cls.error)
  /\ cls.error.status = 400
  /\ cls.error.error = BodyMixedEntries
  /\ IsAppError(cls.result)

\* the variants the status table allows for a status
VariantsForStatus(status) ==
  CASE status = 0 -> {"NetworkError"}
    [] status = 400 -> {"BadRequestError", "ValidationError"}
    [] status = 401 -> {"UnauthorizedError"}
    [] status = 403 -> {"ForbiddenError"}
    [] status = 404 -> {"NotFoundError"}
    [] status = 409 -> {"ConflictError"}
    [] status \in 500..599 -> {"ServerError"}
    [] OTHER -> {"UnexpectedError"}

\* C2: for an HttpErrorResponse the status alone decides the variant
\* createAppError returns, by the table 0, 400, 401, 403, 404, 409,
\* 500..599, other.
StatusDeterminesVariant ==
  (Classified /\ IsHttpErrorResponse(cls.error)) =>
    /\ IsAppError(cls.result)
    /\ cls.result.name \in VariantsForStatus(cls.error.status)

\* the lower edge of the 5xx range was classified as a ServerError
StatusDeterminesVariantWitness ==
  /\ Classified
  /\ IsHttpErrorResponse(cls.error)
  /\ cls.error.status = 500
  /\ cls.error.error # Null
  /\ cls.result.name = "ServerError"

ApiHttpErrorNames ==
  {"BadRequestError", "ValidationError", "UnauthorizedError",
   "ForbiddenError", "NotFoundError", "ConflictError", "ServerError"}

\* the (category, severity, isRetryable) of the data-model table
TableTuple(status) ==
  CASE status = 0 -> <<"network", "error", TRUE>>
    [] status \in {400, 409} -> <<"validation", "warning", FALSE>>
    [] status = 401 -> <<"authentication", "error", FALSE>>
    [] status = 403 -> <<"authorization", "error", FALSE>>
    [] status = 404 -> <<"not_found", "warning", FALSE>>
    [] status \in 500..599 -> <<"server", "critical", TRUE>>
    [] OTHER -> <<"unknown", "error", FALSE>>

\* C3: for the statuses 0, 400, 401, 403, 404, 409, 500, 503 and 999 the
\* returned error has the table's category, severity and isRetryable, and
\* an ApiHttpError variant has the status it was built from.
StatusTableFidelity ==
  (/\ Classified
   /\ IsHttpErrorResponse(cls.error)
   /\ cls.error.status \in {0, 400, 401, 403, 404, 409, 500, 503, 999}) =>
    /\ IsAppError(cls.result)
    /\ <<cls.result.category, cls.result.severity, cls.result.isRetryable>>
         = TableTuple(cls.error.status)
    /\ cls.result.name \in ApiHttpErrorNames =>
         cls.result.status = cls.error.status

\* a 503 was classified and kept its number
StatusTableFidelityWitness ==
  /\ Classified
  /\ IsHttpErrorResponse(cls.error)
  /\ cls.error.status = 503
  /\ cls.result.name = "ServerError"
  /\ cls.result.status = 503

\* C4: classification is idempotent: an AppError given to createAppError
\* comes back as it is, so classifying the result of a classification
\* again, with any request and correlation id, returns that result.
Idempotence ==
  /\ (Classified /\ IsAppError(cls.error)) => cls.result = cls.error
  /\ cls.pc = "reclassified" => cls.again = cls.result

\* the result for an HttpErrorResponse was classified again with another
\* request and another correlation id
IdempotenceWitness ==
  /\ cls.pc = "reclassified"
  /\ IsHttpErrorResponse(cls.error)
  /\ cls.request2 # cls.request
  /\ cls.correlationId2 # cls.correlationId
  /\ cls.again = cls.result

\* ------------------------------------------------------------------------
\* Properties of the pipeline (Spec)
\* ------------------------------------------------------------------------
\* next(req) of slot r has failed
Failed(r) == reqs[r].raw # NoValue /\ reqs[r].raw.cls # "HttpResponse"

\* the failure of slot r is an HttpErrorResponse with this status
FailedWithStatus(r, status) ==
  /\ Failed(r)
  /\ IsHttpErrorResponse(reqs[r].raw)
  /\ reqs[r].raw.status = status

\* slot r was intercepted with the opt-out set / unset
OptedOut(r) == reqs[r].req # NoValue /\ reqs[r].req.skip = TRUE

NotOptedOut(r) == reqs[r].req # NoValue /\ reqs[r].req.skip = FALSE

\* the kinds of the events in the log of slot r, in order
LogKinds(r) == [i \in DOMAIN reqs[r].log |-> reqs[r].log[i].ev]

\* the events of one kind in the log of slot r
LogEvents(r, kind) ==
  {i \in DOMAIN reqs[r].log : reqs[r].log[i].ev = kind}

IsPrefix(p, q) ==
  Len(p) <= Len(q) /\ \A i \in 1..Len(p) : p[i] = q[i]

\* C5: a failing request that carries the opt-out is not classified,
\* enqueues no toast and triggers no navigation; the caller receives the
\* raw failure itself, and the toast queue and nextId stay as they were.
OptOutShortCircuit ==
  [][\A r \in Slots :
       (/\ OptedOut(r)
        /\ reqs[r].raw = NoValue
        /\ reqs'[r].raw # NoValue
        /\ reqs'[r].raw.cls # "HttpResponse") =>
         /\ reqs'[r].pc = "done"
         /\ reqs'[r].delivered = reqs'[r].raw
         /\ reqs'[r].appError = NoValue
         /\ LogKinds(r)' = <<"deliver">>
         /\ activeToasts' = activeToasts
         /\ nextId' = nextId
         /\ navigations' = navigations]_vars

\* an opted-out request failed with a 401 and its caller has the raw 401
OptOutShortCircuitWitness ==
  \E r \in Slots :
    /\ OptedOut(r)
    /\ reqs[r].pc = "done"
    /\ FailedWithStatus(r, 401)
    /\ reqs[r].delivered = reqs[r].raw
    /\ activeToasts = <<>>
    /\ navigations = <<>>

\* C6: for a 401 without opt-out the interceptor notifies once, then
\* navigates to sign-in once, and only then delivers the error: the events
\* of the request are always a prefix of notify, navigate, deliver, and
\* all three have happened when the caller has the error.
SessionExpiryOrder ==
  \A r \in Slots :
    (NotOptedOut(r) /\ FailedWithStatus(r, 401)) =>
      /\ IsPrefix(LogKinds(r), <<"notify", "navigate", "deliver">>)
      /\ reqs[r].delivered # NoValue =>
           /\ LogKinds(r) = <<"notify", "navigate", "deliver">>
           /\ \E i \in DOMAIN activeToasts :
                activeToasts[i].id = reqs[r].log[1].toastId
           /\ Len(navigations) >= 1

\* a 401 has been notified, navigated and delivered
SessionExpiryOrderWitness ==
  \E r \in Slots :
    /\ NotOptedOut(r)
    /\ FailedWithStatus(r, 401)
    /\ reqs[r].pc = "done"
    /\ LogKinds(r) = <<"notify", "navigate", "deliver">>
    /\ Len(navigations) = 1

\* slots whose callback has got past the redirect test with an
\* UnauthorizedError in hand
UnauthorizedHandled ==
  {r \in Slots :
     /\ reqs[r].pc \in {"rethrow", "done"}
     /\ NotOptedOut(r)
     /\ Failed(r)
     /\ reqs[r].appError # NoValue
     /\ reqs[r].appError.name = "UnauthorizedError"}

\* C7: the interceptor navigates to sign-in exactly for the failures it
\* classified as UnauthorizedError: the number of navigation calls equals
\* the number of such failures, each call goes to the login route, and a
\* failure with any status other than 401 causes none.
NavigationIffUnauthorized ==
  /\ Len(navigations) = Cardinality(UnauthorizedHandled)
  /\ \A i \in DOMAIN navigations : navigations[i] = <<currentLocale, "login">>
  /\ \A r \in Slots :
       /\ LogEvents(r, "navigate") # {} => r \in UnauthorizedHandled
       /\ (IsHttpErrorResponse(reqs[r].raw) /\ reqs[r].raw.status # 401) =>
            LogEvents(r, "navigate") = {}

\* a 401 and a 403 have both been handled, and there is one navigation
NavigationIffUnauthorizedWitness ==
  \E r1, r2 \in Slots :
    /\ NotOptedOut(r1) /\ FailedWithStatus(r1, 401) /\ reqs[r1].pc = "done"
    /\ NotOptedOut(r2) /\ FailedWithStatus(r2, 403) /\ reqs[r2].pc = "done"
    /\ Len(navigations) = 1

\* slots whose failure the callback has handled to the end
HandledFailures ==
  {r \in Slots : NotOptedOut(r) /\ Failed(r) /\ reqs[r].pc = "done"}

\* positions in the queue of the toast enqueued for slot r
ToastsOf(r) ==
  {i \in DOMAIN activeToasts :
     \E j \in LogEvents(r, "notify") :
       activeToasts[i].id = reqs[r].log[j].toastId}

\* C8: every failing request without the opt-out produces exactly one
\* toast: between callbacks the number of toasts enqueued equals the
\* number of such failures, and the toast of a request carries the
\* userMessage of the error delivered to its caller.
OneToastPerFailure ==
  /\ running = 0 =>
       /\ Len(activeToasts) = Cardinality(HandledFailures)
       /\ nextId = Cardinality(HandledFailures) + 1
  /\ \A r \in HandledFailures :
       /\ Cardinality(LogEvents(r, "notify")) = 1
       /\ Cardinality(ToastsOf(r)) = 1
       /\ \A i \in ToastsOf(r) :
            activeToasts[i].message = reqs[r].delivered.userMessage

\* two failures with different messages have been handled: two toasts
OneToastPerFailureWitness ==
  \E r1, r2 \in HandledFailures :
    /\ r1 # r2
    /\ reqs[r1].delivered.userMessage # reqs[r2].delivered.userMessage
    /\ Len(activeToasts) = 2

SuccessPassThrough ==
  [][\A r \in Slots :
       (/\ reqs[r].raw = NoValue
        /\ reqs'[r].raw # NoValue
        /\ reqs'[r].raw.cls = "HttpResponse") =>
         /\ reqs'[r].pc = "done"
         /\ reqs'[r].delivered = reqs'[r].raw
         /\ reqs'[r].appError = NoValue
         /\ LogKinds(r)' = <<"deliver">>
         /\ activeToasts' = activeToasts
         /\ nextId' = nextId
         /\ navigations' = navigations]_vars

\* a request with the opt-out and one without have both succeeded
SuccessPassThroughWitness ==
  \E r1, r2 \in Slots :
    /\ OptedOut(r1) /\ NotOptedOut(r2)
    /\ \A r \in {r1, r2} :
         /\ reqs[r].pc = "done"
         /\ reqs[r].raw.cls = "HttpResponse"
         /\ reqs[r].delivered = reqs[r].raw
    /\ activeToasts = <<>>
    /\ navigations = <<>>

\* ------------------------------------------------------------------------
\* Properties of the message texts
\* ------------------------------------------------------------------------
\* the fixed texts of the classifier
FixedTexts ==
  {"Please check your input and try again.",
   "Your session has expired. Please sign in again.",
   "You do not have permission to perform this action.",
   "The requested resource was not found.",
   "A conflict occurred. Please refresh and try again.",
   "A server error occurred. Please try again later.",
   "Request failed. Please try again.",
   "Unable to reach the server. Please check your internet connection.",
   "An unexpected error occurred. Please try again."}

\* the body is an object whose property key holds a value of type tag
HasProp(body, key, tag) ==
  body.t = "object" /\ body.f[key].t = tag

\* the texts a body offers: its message, its message array joined with
\* spaces, its error summary
BodyTexts(body) ==
  (IF HasProp(body, "message", "string") THEN {body.f["message"].s} ELSE {})
  \cup (IF HasProp(body, "message", "array")
        THEN {join(body.f["message"].e, " ")} ELSE {})
  \cup (IF HasProp(body, "error", "string") THEN {body.f["error"].s} ELSE {})

\* C11: the text of every toast the pipeline enqueues for an
\* HttpErrorResponse is the body's message, the body's error summary or a
\* fixed default, and never the raw body itself, also when the body is a
\* bare string.
NotificationTextNeverRawBody ==
  \A r \in HandledFailures :
    IsHttpErrorResponse(reqs[r].raw) =>
      \A i \in ToastsOf(r) :
        /\ activeToasts[i].message \in
             BodyTexts(reqs[r].raw.error) \cup FixedTexts
        /\ reqs[r].raw.error.t = "string" =>
             activeToasts[i].message # reqs[r].raw.error.s

\* the fixed default of a status with a message chain
DefaultText(status) ==
  CASE status = 401 -> "Your session has expired. Please sign in again."
    [] status = 403 -> "You do not have permission to perform this action."
    [] status = 404 -> "The requested resource was not found."
    [] status = 409 -> "A conflict occurred. Please refresh and try again."

\* message string, else non-empty message array joined with single spaces,
\* else non-empty error summary, else the default
MessageChain(body, default) ==
  IF HasProp(body, "message", "string") THEN body.f["message"].s
  ELSE IF HasProp(body, "message", "array") /\ Len(body.f["message"].e) > 0
       THEN join(body.f["message"].e, " ")
  ELSE IF HasProp(body, "error", "string") /\ body.f["error"].s # ""
       THEN body.f["error"].s
  ELSE default

\* C12: for status 401, 403, 404 and 409 the userMessage follows the
\* precedence message string, message array joined with single spaces,
\* error summary, fixed default of the variant.
MessagePrecedence ==
  (/\ Classified
   /\ IsHttpErrorResponse(cls.error)
   /\ cls.error.status \in {401, 403, 404, 409}) =>
    cls.result.userMessage =
      MessageChain(cls.error.error, DefaultText(cls.error.status))

\* ------------------------------------------------------------------------
\* Properties of the bad-request disambiguation
\* ------------------------------------------------------------------------
\* an entry of the errors array with a string field and a string message
WellFormedEntry(entry) ==
  HasProp(entry, "field", "string") /\ HasProp(entry, "message", "string")

\* the entries of the body's errors array, <<>> when it has none
ErrorsEntries(body) ==
  IF HasProp(body, "errors", "array") THEN body.f["errors"].e ELSE <<>>

\* C13: a 400 whose body has an errors array of objects that each have a
\* string field and a string message is a ValidationError with category
\* VALIDATION and status 400 whose fieldErrors are the {field, message}
\* pairs of the array, same order, same length.
FieldErrorExtraction ==
  (/\ Classified
   /\ IsHttpErrorResponse(cls.error)
   /\ cls.error.status = 400
   /\ Len(ErrorsEntries(cls.error.error)) > 0
   /\ \A i \in DOMAIN ErrorsEntries(cls.error.error) :
        WellFormedEntry(ErrorsEntries(cls.error.error)[i])) =>
    /\ cls.result.name = "ValidationError"
    /\ cls.result.category = "validation"
    /\ cls.result.status = 400
    /\ Len(cls.result.fieldErrors) = Len(ErrorsEntries(cls.error.error))
    /\ \A i \in DOMAIN ErrorsEntries(cls.error.error) :
         cls.result.fieldErrors[i] =
           [field |-> ErrorsEntries(cls.error.error)[i].f["field"].s,
            message |-> ErrorsEntries(cls.error.error)[i].f["message"].s]

\* a 400 with two well-formed entries was classified: two field errors,
\* name before email
FieldErrorExtractionWitness ==
  /\ Classified
  /\ IsHttpErrorResponse(cls.error)
  /\ cls.error.status = 400
  /\ cls.error.error = BodyTwoFieldErrors
  /\ cls.result.name = "ValidationError"
  /\ cls.result.fieldErrors =
       <<[field |-> "name", message |-> "required"],
         [field |-> "email", message |-> "invalid"]>>

\* C14: a 400 whose errors value is absent, not an array, or an array with
\* no entry that is an object with a string field and a string message, is
\* a plain BadRequestError without fieldErrors, and nothing is thrown.
MalformedErrorsDegrade ==
  (/\ Classified
   /\ IsHttpErrorResponse(cls.error)
   /\ cls.error.status = 400
   /\ \A i \in DOMAIN ErrorsEntries(cls.error.error) :
        ~WellFormedEntry(ErrorsEntries(cls.error.error)[i])) =>
    /\ cls.result # Thrown
    /\ cls.result.name = "BadRequestError"
    /\ "fieldErrors" \notin DOMAIN cls.result

\* a 400 with errors: ["not an object"] was classified as BadRequestError
MalformedErrorsDegradeWitness ==
  /\ Classified
  /\ IsHttpErrorResponse(cls.error)
  /\ cls.error.status = 400
  /\ cls.error.error = BodyMalformedErrors
  /\ cls.result.name = "BadRequestError"

\* ------------------------------------------------------------------------
\* Properties of the delivered error
\* ------------------------------------------------------------------------
NineKinds ==
  {"BadRequestError", "ValidationError", "UnauthorizedError",
   "ForbiddenError", "NotFoundError", "ConflictError", "ServerError",
   "NetworkError", "UnexpectedError"}

CorrelationPropagation ==
  \A r \in Slots :
    (reqs[r].appError # NoValue /\ ~IsAppError(reqs[r].raw)) =>
      reqs[r].appError.correlationId =
        IF IsHttpErrorResponse(reqs[r].raw)
           /\ reqs[r].raw.headers.xCorrelationId # Null
        THEN reqs[r].raw.headers.xCorrelationId
        ELSE Undefined

\* a status 0 failure with the header and a 404 without it were classified
CorrelationPropagationWitness ==
  \E r1, r2 \in Slots :
    /\ FailedWithStatus(r1, 0)
    /\ reqs[r1].raw.headers.xCorrelationId = Str("abc-123")
    /\ reqs[r1].appError # NoValue
    /\ reqs[r1].appError.correlationId = Str("abc-123")
    /\ FailedWithStatus(r2, 404)
    /\ reqs[r2].raw.headers.xCorrelationId = Null
    /\ reqs[r2].appError # NoValue
    /\ reqs[r2].appError.correlationId = Undefined

\* ------------------------------------------------------------------------
\* Properties of the notification service (SpecNotification)
\* ------------------------------------------------------------------------
\* the active toasts are in creation order, with ids from 1 below nextId
ToastIdsOrdered ==
  /\ nextId >= 1
  /\ \A i \in 1..Len(activeToasts) :
       /\ activeToasts[i].id >= 1
       /\ activeToasts[i].id < nextId
  /\ \A i, j \in 1..Len(activeToasts) :
       i < j => activeToasts[i].id < activeToasts[j].id

\* a show call: one toast more, at the end, numbered with the count of
\* toasts created so far plus one
ToastAppended ==
  /\ nextId' = nextId + 1
  /\ Len(activeToasts') = Len(activeToasts) + 1
  /\ SubSeq(activeToasts', 1, Len(activeToasts)) = activeToasts
  /\ activeToasts'[Len(activeToasts')].id = nextId

\* a dismiss call: no toast created, none renumbered
ToastsDismissed ==
  /\ nextId' = nextId
  /\ Len(activeToasts') <= Len(activeToasts)
  /\ \A i \in 1..Len(activeToasts') :
       \E j \in 1..Len(activeToasts) : activeToasts'[i] = activeToasts[j]

\* C17: every show call appends exactly one toast at the end of the queue;
\* ids start at 1 and strictly increase in creation order, so that after
\* any sequence of show and dismiss calls the ids assigned are distinct,
\* the k-th toast created has id k (nextId - 1 toasts were created), and
\* every active toast's id is less than nextId.
ToastIdDiscipline ==
  /\ nextId = 1
  /\ []ToastIdsOrdered
  /\ [][ToastAppended \/ ToastsDismissed]_vars

\* toasts 1, 2, 3 were created by different show calls and toast 2 was
\* dismissed
ToastIdDisciplineWitness ==
  /\ nextId = 4
  /\ Len(activeToasts) = 2
  /\ activeToasts[1].id = 1
  /\ activeToasts[1].type = "success"
  /\ activeToasts[2].id = 3
  /\ activeToasts[2].message = MsgServer
  /\ activeToasts[2].type = "error"

\* ------------------------------------------------------------------------
\* Overlapping failures
\* ------------------------------------------------------------------------
\* C18: when several requests fail with their handling overlapping in
\* time, each failure is classified and notified independently: under
\* every interleaving each caller receives an error built from its own
\* request's URL and method and its own response's status (the fields of
\* an ApiHttpError) and correlation id, and the queue holds exactly one toast per failure, each with a
\* distinct id and belonging to one failure, none lost or duplicated.
IndependentHandling ==
  /\ \A r \in HandledFailures :
       /\ IsHttpErrorResponse(reqs[r].raw) =>
            /\ reqs[r].delivered.correlationId =
                 Coalesce(reqs[r].raw.headers.xCorrelationId, Undefined)
            /\ "url" \in DOMAIN reqs[r].delivered =>
                 /\ reqs[r].delivered.url = reqs[r].req.urlWithParams
                 /\ reqs[r].delivered.method = reqs[r].req.method
                 /\ reqs[r].delivered.status = reqs[r].raw.status
       /\ Cardinality(ToastsOf(r)) = 1
  /\ \A r1, r2 \in HandledFailures :
       r1 # r2 => ToastsOf(r1) \cap ToastsOf(r2) = {}
  /\ \A i, j \in DOMAIN activeToasts :
       i # j => activeToasts[i].id # activeToasts[j].id
  /\ \A i \in DOMAIN activeToasts : \E r \in Slots : i \in ToastsOf(r)
  /\ running = 0 =>
       \A i \in DOMAIN activeToasts : \E r \in HandledFailures : i \in ToastsOf(r)

\* the second request failed, with another status, while the first was in
\* flight: its toast is the first of the queue, and each caller has the
\* error of its own request
IndependentHandlingWitness ==
  /\ {1, 2} \subseteq HandledFailures
  /\ FailedWithStatus(1, 404)
  /\ FailedWithStatus(2, 500)
  /\ reqs[1].delivered.url = reqs[1].req.urlWithParams
  /\ reqs[2].delivered.url = reqs[2].req.urlWithParams
  /\ reqs[1].delivered.url # reqs[2].delivered.url
  /\ ToastsOf(2) = {1}
  /\ ToastsOf(1) = {2}

\* ------------------------------------------------------------------------
\* Fallback classifications (SpecClassifier)
\* ------------------------------------------------------------------------
\* C19: a failure with status 0 is classified as a NetworkError whose
\* userMessage is always the fixed text "Unable to reach the server. Please
\* check your internet connection.", whatever the error body contains, and
\* whose cause is the original failure.
NetworkFailureFixedText ==
  (Classified /\ IsHttpErrorResponse(cls.error) /\ cls.error.status = 0) =>
    /\ cls.result # Thrown
    /\ cls.result.name = "NetworkError"
    /\ cls.result.userMessage =
         "Unable to reach the server. Please check your internet connection."
    /\ cls.result.cause = cls.error

\* a status 0 failure whose body has a message of its own was classified
NetworkFailureFixedTextWitness ==
  /\ Classified
  /\ IsHttpErrorResponse(cls.error)
  /\ cls.error.status = 0
  /\ HasProp(cls.error.error, "message", "string")
  /\ cls.result.name = "NetworkError"
  /\ cls.result.userMessage # cls.error.error.f["message"].s

\* C20: a raw failure that is neither an HttpErrorResponse nor an AppError
\* (any other thrown value, a plain Error included) is wrapped as an
\* UnexpectedError with the fixed default message "An unexpected error
\* occurred. Please try again.", the original value retained as cause.
UnknownFailureWrapped ==
  (Classified /\ ~IsHttpErrorResponse(cls.error) /\ ~IsAppError(cls.error)) =>
    /\ cls.result # Thrown
    /\ cls.result.name = "UnexpectedError"
    /\ cls.result.userMessage =
         "An unexpected error occurred. Please try again."
    /\ cls.result.cause = cls.error
    /\ cls.result.correlationId = cls.correlationId

\* a plain Error was classified
UnknownFailureWrappedWitness ==
  /\ Classified
  /\ cls.error.cls = "Error"
  /\ cls.result.name = "UnexpectedError"
  /\ cls.result.cause.message = "boom"

\* ------------------------------------------------------------------------
\* Malformed entries and unrecognised messages (SpecClassifier)
\* ------------------------------------------------------------------------
\* the {field, message} pairs of the well-formed entries, in their order
WellFormedPairs(body) ==
  LET entries == SelectSeq(ErrorsEntries(body), WellFormedEntry)
  IN [i \in 1..Len(entries) |->
        [field |-> entries[i].f["field"].s,
         message |-> entries[i].f["message"].s]]

\* C23: for a 400 failure the result is a ValidationError if and only if
\* the body's errors value is an array with at least one entry that is an
\* object with a string field and a string message; malformed entries are
\* skipped and fieldErrors is exactly the subsequence of well-formed
\* entries in their original order; an empty array or an array with no
\* well-formed entry gives a BadRequestError.
ValidationIffWellFormedEntry ==
  (Classified /\ IsHttpErrorResponse(cls.error) /\ cls.error.status = 400) =>
    /\ cls.result # Thrown
    /\ IF Len(WellFormedPairs(cls.error.error)) > 0
       THEN /\ cls.result.name = "ValidationError"
            /\ cls.result.fieldErrors = WellFormedPairs(cls.error.error)
       ELSE /\ cls.result.name = "BadRequestError"
            /\ "fieldErrors" \notin DOMAIN cls.result

\* a 400 whose errors array mixes null, undefined and ill-typed entries
\* with two well-formed ones was classified: the two are kept, in order
ValidationIffWellFormedEntryWitness ==
  /\ Classified
  /\ IsHttpErrorResponse(cls.error)
  /\ cls.error.status = 400
  /\ cls.error.error = BodyMixedEntries
  /\ Len(ErrorsEntries(cls.error.error)) = 5
  /\ cls.result.name = "ValidationError"
  /\ cls.result.fieldErrors =
       <<[field |-> "email", message |-> "invalid"],
         [field |-> "name", message |-> "required"]>>

\* the raw message is a string or an array of strings
RecognisedMessage(body) ==
  \/ HasProp(body, "message", "string")
  \/ /\ HasProp(body, "message", "array")
     /\ \A i \in DOMAIN body.f["message"].e :
          body.f["message"].e[i].t = "string"

\* C24: parseBackendErrorBody recognises a message only when the raw
\* message is a string or an array of strings: for any other message value
\* (a number, an object, an array with a non-string element) the normalized
\* record has no message, so that the userMessage of a 401, 403, 404 or 409
\* is the error summary or the default.
OnlyStringMessagesRecognised ==
  (/\ Classified
   /\ IsHttpErrorResponse(cls.error)
   /\ cls.error.error.t = "object"
   /\ ~RecognisedMessage(cls.error.error)) =>
    /\ parseBackendErrorBody(cls.error.error).message = Undefined
    /\ cls.error.status \in {401, 403, 404, 409} =>
         cls.result.userMessage =
           IF HasProp(cls.error.error, "error", "string")
              /\ cls.error.error.f["error"].s # ""
           THEN cls.error.error.f["error"].s
           ELSE DefaultText(cls.error.status)

\* ------------------------------------------------------------------------
\* Single attempt
\* ------------------------------------------------------------------------
\* C25: the interceptor never retries: for every request, whatever the
\* outcome and whatever the isRetryable flag of the classified error,
\* next(req) is invoked exactly once, and a failure is delivered to the
\* caller after that single attempt.
NeverRetries ==
  \A r \in Slots :
    /\ reqs[r].attempts = (IF reqs[r].pc = "idle" THEN 0 ELSE 1)
    /\ (Failed(r) /\ reqs[r].pc = "done") =>
         /\ reqs[r].attempts = 1
         /\ Cardinality(LogEvents(r, "deliver")) = 1

\* a retryable error (a 503 ServerError) was delivered after one attempt,
\* and a request succeeded after one attempt
NeverRetriesWitness ==
  \E r1, r2 \in Slots :
    /\ r1 \in HandledFailures
    /\ FailedWithStatus(r1, 503)
    /\ reqs[r1].delivered.isRetryable = TRUE
    /\ reqs[r1].attempts = 1
    /\ reqs[r2].pc = "done"
    /\ ~Failed(r2)
    /\ reqs[r2].attempts = 1

\* ------------------------------------------------------------------------
\* Properties of the locale routing (SpecLocale)
\* ------------------------------------------------------------------------
\* the last router.navigate call made
LastNavigation == navigations[Len(navigations)]

\* C21: LocaleGuard redirects a URL whose first segment is not a supported
\* locale to the default locale with the same page (/invalid-locale/dashboard
\* to /en-EN/dashboard), and canActivate returns false for the original URL.
InvalidLocaleRedirectKeepsPage ==
  (/\ lastCall.op = "canActivate"
   /\ Len(Segments(lastCall.arg)) > 0
   /\ Segments(lastCall.arg)[1] \notin {"en-EN", "fr-FR"}) =>
    /\ lastCall.result = FALSE
    /\ Len(navigations) = Len(lastCall.before.navigations) + 1
    /\ LastNavigation = <<"en-EN">> \o Tail(Segments(lastCall.arg))

\* C22: switchLocale(L) with a supported locale L different from the
\* current one navigates to the current page path with L as the locale
\* prefix; with the current locale it does nothing.
SwitchLocaleKeepsPage ==
  lastCall.op = "switchLocale" =>
    IF lastCall.arg = lastCall.before.currentLocale
    THEN navigations = lastCall.before.navigations
    ELSE LET segments == Segments(lastCall.before.routerUrl)
             page == IF Len(segments) > 0 /\ segments[1] \in {"en-EN", "fr-FR"}
                     THEN Tail(segments) ELSE segments
         IN /\ Len(navigations) = Len(lastCall.before.navigations) + 1
            /\ LastNavigation = <<lastCall.arg>> \o page

\* C30: currentLocale is always a supported locale, after construction and
\* after any sequence of setLocale calls with arbitrary strings and
\* canActivate calls with arbitrary URLs; setLocale with an unsupported
\* string sets the default en-EN; canActivate returns true only when the
\* URL's first segment is supported, and currentLocale then equals it.
CurrentLocaleSupported ==
  /\ currentLocale \in {"en-EN", "fr-FR"}
  /\ lastCall.op = "setLocale" =>
       currentLocale = IF lastCall.arg \in {"en-EN", "fr-FR"}
                       THEN lastCall.arg ELSE "en-EN"
  /\ lastCall.op = "canActivate" =>
       /\ lastCall.result = TRUE =>
            /\ Len(Segments(lastCall.arg)) > 0
            /\ Segments(lastCall.arg)[1] \in {"en-EN", "fr-FR"}
            /\ currentLocale = Segments(lastCall.arg)[1]
       /\ lastCall.result = FALSE =>
            \/ Len(Segments(lastCall.arg)) = 0
            \/ Segments(lastCall.arg)[1] \notin {"en-EN", "fr-FR"}

\* setLocale("de-DE") was called while the locale was fr-FR, which the
\* guard had set from /fr-FR/problem-add: the locale is en-EN
CurrentLocaleSupportedWitness ==
  /\ lastCall.op = "setLocale"
  /\ lastCall.arg = "de-DE"
  /\ lastCall.before.currentLocale = "fr-FR"
  /\ lastCall.before.routerUrl = <<"", "fr-FR", "problem-add">>
  /\ currentLocale = "en-EN"

\* C26: dismissToast(id) removes exactly the active toast with that id and
\* leaves every other toast and their relative order unchanged; dismissing
\* an id that is not active is a no-op; after a dismissal the id is not
\* active, so dismissing twice equals dismissing once; dismissal never
\* changes nextId, so an id is never reused by a later toast.
DismissRemovesExactlyOne ==
  /\ lastCall.op = "dismissToast" =>
       LET before == lastCall.before.activeToasts
           others(toast) == toast.id # lastCall.arg
           active == {before[i].id : i \in DOMAIN before}
       IN /\ activeToasts = SelectSeq(before, others)
          /\ Len(activeToasts) =
               Len(before) - (IF lastCall.arg \in active THEN 1 ELSE 0)
          /\ lastCall.arg \notin active => activeToasts = before
          /\ \A i \in DOMAIN activeToasts : activeToasts[i].id # lastCall.arg
          /\ nextId = lastCall.before.nextId
  /\ lastCall.op \in {"showErrorFromAppError", "showSuccess", "showInfo",
                      "showWarning"} =>
       /\ activeToasts[Len(activeToasts)].id = lastCall.before.nextId
       /\ \A i \in 1..(Len(activeToasts) - 1) :
            activeToasts[i].id < lastCall.before.nextId

\* toasts 1, 2 and 3 were active and dismissToast(2) was called: 1 and 3
\* are left, in that order, and the next id is still 4
DismissRemovesExactlyOneWitness ==
  /\ lastCall.op = "dismissToast"
  /\ lastCall.arg = 2
  /\ Len(lastCall.before.activeToasts) = 3
  /\ Len(activeToasts) = 2
  /\ activeToasts[1] = lastCall.before.activeToasts[1]
  /\ activeToasts[2] = lastCall.before.activeToasts[3]
  /\ activeToasts[2].id = 3
  /\ nextId = 4

\* ------------------------------------------------------------------------
\* Properties of the backend services (SpecServices)
\* ------------------------------------------------------------------------
\* C27: handling a 401 failure in the interceptor leaves the cached session
\* user untouched: over every step of the catchError callback of a request
\* that failed with 401, the toast and the navigation to login included,
\* the localStorage entry 'current-user' is unchanged, so isAuthenticated()
\* returns the same value as before the failure.
UnauthorizedHandlingKeepsSession ==
  [][\A r \in Slots :
       (/\ running = r \/ running' = r
        /\ reqs'[r].raw.cls = "HttpErrorResponse"
        /\ reqs'[r].raw.status = 401) =>
         /\ cachedUser' = cachedUser
         /\ isAuthenticated(cachedUser') = isAuthenticated(cachedUser)]_vars

\* a 401 has been handled, toast and navigation to login done and the
\* error delivered, and the user cached before is still cached
UnauthorizedHandlingKeepsSessionWitness ==
  \E r \in Slots :
    /\ reqs[r].pc = "done"
    /\ FailedWithStatus(r, 401)
    /\ reqs[r].delivered.name = "UnauthorizedError"
    /\ LogKinds(r) = <<"notify", "navigate", "deliver">>
    /\ Cardinality(ToastsOf(r)) = 1
    /\ navigations # <<>>
    /\ isAuthenticated(cachedUser)

\* C28: when a request issued by DBGroupService, DBUserService,
\* DBProblemService or AuthService.signIn fails, the subscriber of the
\* service method receives a plain Error with that method's fixed message,
\* not the classified AppError the interceptor produced; the toast for the
\* failure has still been enqueued exactly once.
ServiceErrorsArePlain ==
  \A r \in Slots :
    (/\ reqs[r].pc = "settled"
     /\ Failed(r)
     /\ reqs[r].service \in {"DBGroupService.createGroup",
                              "DBUserService.createUser",
                              "DBProblemService.createProblem",
                              "AuthService.signIn"}) =>
      /\ reqs[r].received.kind = "error"
      /\ reqs[r].received.value.cls = "Error"
      /\ reqs[r].received.value.message =
           (CASE reqs[r].service = "DBGroupService.createGroup" ->
                   "Failed to create group"
              [] reqs[r].service = "DBUserService.createUser" ->
                   "Failed to create user"
              [] reqs[r].service = "DBProblemService.createProblem" ->
                   "Failed to create problem"
              [] reqs[r].service = "AuthService.signIn" ->
                   "Failed to sign in. Please check your credentials.")
      /\ IsAppError(reqs[r].delivered)
      /\ reqs[r].received.value # reqs[r].delivered
      /\ Cardinality(LogEvents(r, "notify")) = 1
      /\ Cardinality(ToastsOf(r)) = 1
      /\ \A i \in ToastsOf(r) :
           activeToasts[i].message = reqs[r].delivered.userMessage

\* createGroup failed with a 500: the interceptor delivered a ServerError
\* and showed its message, the subscriber got Error('Failed to create group')
ServiceErrorsArePlainWitness ==
  \E r \in Slots :
    /\ reqs[r].pc = "settled"
    /\ reqs[r].service = "DBGroupService.createGroup"
    /\ FailedWithStatus(r, 500)
    /\ reqs[r].delivered.name = "ServerError"
    /\ reqs[r].received.value =
         [cls |-> "Error", message |-> "Failed to create group"]
    /\ Cardinality(ToastsOf(r)) = 1

\* C29: signOut clears the cached user whether the sign-out request
\* succeeds or fails: at the step in which signOut emits or errors,
\* isAuthenticated() becomes false, and a failed request is reported to the
\* subscriber as an error; a failed signIn leaves the cached user unchanged.
SignOutAlwaysClears ==
  [][\A r \in Slots :
       (reqs[r].pc = "done" /\ reqs'[r].pc = "settled") =>
         /\ reqs[r].service = "AuthService.signOut" =>
              /\ ~isAuthenticated(cachedUser')
              /\ Failed(r) <=> reqs'[r].received.kind = "error"
         /\ (reqs[r].service = "AuthService.signIn" /\ Failed(r)) =>
              /\ cachedUser' = cachedUser
              /\ reqs'[r].received.kind = "error"]_vars

\* a signOut that failed while a user was cached has errored and the cache
\* is empty; a signIn that failed while a user was cached has errored too
SignOutAlwaysClearsWitness ==
  \E r1, r2 \in Slots :
    /\ reqs[r1].pc = "settled"
    /\ reqs[r1].service = "AuthService.signIn"
    /\ Failed(r1)
    /\ isAuthenticated(reqs[r1].received.found)
    /\ reqs[r2].pc = "settled"
    /\ reqs[r2].service = "AuthService.signOut"
    /\ Failed(r2)
    /\ reqs[r2].received.kind = "error"
    /\ isAuthenticated(reqs[r2].received.found)
    /\ ~isAuthenticated(cachedUser)

====
